---- MODULE Spec2Model ----
(***************************************************************************)
(* Model of the interception and context-propagation engine of the         *)
(* Agentic Learning SDK (TypeScript).                                      *)
(*                                                                         *)
(* Scoped context (core.ts) is Node's AsyncLocalStorage.  The sources      *)
(* name no Node version, so both implementations Node ships are modelled:  *)
(* "async_hooks" (one process-wide `enabled` flag, one store slot per      *)
(* async resource, disable() switches the instance off for every chain)    *)
(* and "context_frame" (disable() removes the store from the caller's      *)
(* frame only).  An action of a chain is one synchronous segment; it ends  *)
(* at an await unless `running` says the chain still holds the thread.     *)
(***************************************************************************)
EXTENDS Integers, Sequences, FiniteSets, TLC

\* ------------------------------------------------------------------ bounds
MaxDepth == 2          \* nested scope activations per call chain
MaxInstalls == 1       \* explicit autoInstall() calls
MaxBlocks == 2         \* memory blocks in a list handed to the formatter
MaxChunks == 2         \* chunks of a stream handed to the reconstruction
MaxMessages == 3       \* entries of a message list handed to the injection
MaxCaptures == 2       \* capture pipelines in flight for one agent name
MaxReuse == 2          \* calls issued with one and the same request object
MaxTransports == 2     \* transports in use inside one scope
MaxWrites == 2         \* user messages written to a transport before its read ends

Chains == {1, 2}
Agents == {"a1", "a2"}

VARIABLES
  impl,                  \* the AsyncLocalStorage implementation of the runtime
  sdk,                   \* what the provider SDK modules export
  probe,                 \* a pure function's input and what it returned
  running,               \* the chain that holds the thread mid-segment, 0 when none
  enabled,               \* AsyncLocalStorage: the instance is enabled
  store,                 \* AsyncLocalStorage: store of each chain's current async resource
  scopes,                \* per chain: stack of open activations
  lastExit,              \* observation made by the scope exit that just happened
  interceptorsInstalled, \* core.ts: let interceptorsInstalled
  autoInstalls,          \* number of autoInstall() runs so far
  insts,                 \* interceptor instances: provider and originalMethods map
  wrappers,              \* patched functions created by install()
  proto,                 \* the SDK prototypes: method name -> function now installed
  installedInterceptors, \* registry.ts: installedInterceptors
  anthropicGlobal,       \* global.__ANTHROPIC_INTERCEPTOR(_INSTALLED)__
  raised,                \* the last autoInstall() threw to its caller
  last,                  \* the provider call that was just made, and what it did
  pending                \* config.pendingUserMessage of the configurations that have one

scopeVars == <<impl, sdk, probe, running, enabled, store, scopes, lastExit, interceptorsInstalled>>
installVars == <<autoInstalls, insts, wrappers, proto, installedInterceptors, anthropicGlobal,
                 raised>>
callVars == <<last, pending>>
vars == <<scopeVars, installVars, callVars>>

\* ---------------------------------------------------------- configurations
\* LearningConfig (core.ts 15-21).  `chain` and `depth` stand for the identity
\* of the object: two activations never share a configuration object.
NoCfg == [agentName |-> "", captureOnly |-> FALSE, chain |-> 0, depth |-> 0]

MkConfig(c, d, agent, co) ==
  [agentName |-> agent, captureOnly |-> co, chain |-> c, depth |-> d]

\* learningContext.getStore(): undefined while the storage is disabled
GetStore(en, st, c) == IF en THEN st[c] ELSE NoCfg

\* getCurrentConfig(): learningContext.getStore() || null
GetCurrentConfig(c) == GetStore(enabled, store, c)

\* An await: the continuation's async resource inherits the store only while
\* the storage is enabled.
Propagate(en, st) == IF en THEN st ELSE NoCfg

\* ------------------------------------------------------------ installation
Providers == {"openai", "anthropic", "gemini", "claude"}

Methods == {"completions.create", "responses.create", "messages.create",
            "generateContent", "generateContentStream", "write", "readMessages"}

ProviderOf(m) ==
  CASE m \in {"completions.create", "responses.create"} -> "openai"
    [] m = "messages.create" -> "anthropic"
    [] m \in {"generateContent", "generateContentStream"} -> "gemini"
    [] OTHER -> "claude"

\* A function installed on an SDK prototype is 0, the SDK's own method, or k > 0,
\* the patched function wrappers[k].  Absent marks a missing originalMethods key.
Original == 0
Absent == -1

\* registerInterceptor(...) x 4, in registration order (interceptors/index.ts)
interceptorClasses == <<"openai", "anthropic", "gemini", "claude">>

EmptyOriginals == [m \in Methods |-> Absent]

\* The installation state as one value, so that install() composes.
InstallState ==
  [insts |-> insts, wrappers |-> wrappers, proto |-> proto,
   installed |-> installedInterceptors, ag |-> anthropicGlobal, sdk |-> sdk,
   raised |-> raised]

\* new InterceptorClass(): originalMethods = new Map()
NewInstance(S, p) ==
  [S EXCEPT !.insts = Append(@, [provider |-> p, originalMethods |-> EmptyOriginals])]

\* this.originalMethods.set(key, Class.prototype[m]); Class.prototype[m] = wrapper
PatchMethod(S, i, m, viaClosure) ==
  LET w == [inst |-> i, m |-> m, closure |-> viaClosure, captured |-> S.proto[m]]
  IN [S EXCEPT !.insts[i].originalMethods[m] = S.proto[m],
               !.wrappers = Append(@, w),
               !.proto[m] = Len(S.wrappers) + 1]

\* What a provider's SDK module is like: "" as published, "missing" when
\* require() of it throws, "absent" when the class or method the interceptor
\* looks for is not there, "throws" when looking for it throws
FaultOf(S, p) == IF S.sdk.provider = p THEN S.sdk.fault ELSE ""

\* What a piece of code hands on: the state it leaves and whether it threw
Done(S) == [S |-> S, threw |-> FALSE]
Thrown(S) == [S |-> S, threw |-> TRUE]

\* try { ... } catch { }
Swallow(r) == Done(r.S)

\* An isAvailable() that lets the error of require() through
IsAvailableNoCatch(S, p) ==
  IF FaultOf(S, p) = "missing" THEN "throw" ELSE "true"

\* isAvailable(): try { require(sdk); return true } catch { return false }
isAvailable(S, p) ==
  IF FaultOf(S, p) = "missing" THEN "false" ELSE "true"

\* A lookup that takes whatever it finds for the class
ShapeFoundAlways(S, p) == TRUE

\* if (Class && Class.prototype?.create): the class and its method are there
ShapeFound(S, p) == FaultOf(S, p) # "absent"

\* The try block of an install(): require() and the lookup of the class may
\* throw; without the class nothing is patched
TryPatch(S, i, p, m1, m2, viaClosure) ==
  IF FaultOf(S, p) \in {"missing", "throws"} THEN Thrown(S)
  ELSE IF ~ShapeFound(S, p) THEN Done(S)
  ELSE Done(PatchMethod(PatchMethod(S, i, m1, viaClosure), i, m2, viaClosure))

\* OpenAIInterceptor.install()
OpenAIInstall(S, i) ==
  Swallow(TryPatch(S, i, "openai", "completions.create", "responses.create", FALSE))

\* AnthropicInterceptor.install(): only publishes the instance for lazyInstall
AnthropicInstall(S, i) ==
  Done([S EXCEPT !.ag = [installed |-> FALSE, interceptor |-> i]])

\* AnthropicInterceptor.lazyInstall(client), reached through enableAnthropicInterception
LazyInstall(S) ==
  IF S.ag.installed THEN S
  ELSE IF FaultOf(S, "anthropic") = "throws" \/ ~ShapeFound(S, "anthropic") THEN S
  ELSE [PatchMethod(S, S.ag.interceptor, "messages.create", FALSE)
          EXCEPT !.ag.installed = TRUE]

\* GeminiInterceptor.install(): the model class is the exported GenerativeModel
\* or, when the module does not export it, the constructor of a model obtained
\* from a GoogleGenerativeAI instance; either way the same class is patched
GeminiInstall(S, i) ==
  Swallow(TryPatch(S, i, "gemini", "generateContent", "generateContentStream", FALSE))

\* ClaudeInterceptor.install(): write and readMessages call the originals they
\* captured in a closure at patch time
ClaudeInstall(S, i) ==
  Swallow(TryPatch(S, i, "claude", "write", "readMessages", TRUE))

Install(S, i) ==
  CASE S.insts[i].provider = "openai" -> OpenAIInstall(S, i)
    [] S.insts[i].provider = "anthropic" -> AnthropicInstall(S, i)
    [] S.insts[i].provider = "gemini" -> GeminiInstall(S, i)
    [] OTHER -> ClaudeInstall(S, i)

\* One turn of autoInstall()'s loop for class number k: isAvailable() is
\* called outside the try block, install() and the push inside it.  The
\* instance of a class that is not available is dropped.
InstallClass(S, k) ==
  LET p == interceptorClasses[k]
      S1 == NewInstance(S, p)
      i == Len(S1.insts)
      r == Install(S1, i)
  IN IF S.raised THEN S
     ELSE IF isAvailable(S, p) = "throw" THEN [S EXCEPT !.raised = TRUE]
     ELSE IF isAvailable(S, p) = "false" THEN S
     ELSE IF r.threw THEN r.S
     ELSE [r.S EXCEPT !.installed = Append(@, i)]

\* autoInstall(): the loop over the registered classes
AutoInstallState(S) ==
  InstallClass(InstallClass(InstallClass(InstallClass(
    [S EXCEPT !.raised = FALSE], 1), 2), 3), 4)

SetInstallState(S) ==
  /\ insts' = S.insts
  /\ wrappers' = S.wrappers
  /\ proto' = S.proto
  /\ installedInterceptors' = S.installed
  /\ anthropicGlobal' = S.ag
  /\ raised' = S.raised

\* this.originalMethods.has(key) => Class.prototype[m] = this.originalMethods.get(key)
RestoreMethod(S, i, m) ==
  IF S.insts[i].originalMethods[m] = Absent THEN S
  ELSE [S EXCEPT !.proto[m] = S.insts[i].originalMethods[m]]

\* OpenAIInterceptor.uninstall()
OpenAIUninstall(S, i) ==
  RestoreMethod(RestoreMethod(S, i, "completions.create"), i, "responses.create")

\* AnthropicInterceptor.uninstall(): restores Messages.prototype.create; the
\* global flag and the published instance stay as they are
AnthropicUninstall(S, i) == RestoreMethod(S, i, "messages.create")

\* GeminiInterceptor.uninstall(): looks only at the exported GenerativeModel
GeminiUninstall(S, i) ==
  IF S.sdk.geminiExported /\ FaultOf(S, "gemini") = ""
  THEN RestoreMethod(RestoreMethod(S, i, "generateContent"), i, "generateContentStream")
  ELSE S

\* ClaudeInterceptor.uninstall()
ClaudeUninstall(S, i) ==
  RestoreMethod(RestoreMethod(S, i, "write"), i, "readMessages")

Uninstall(S, i) ==
  CASE S.insts[i].provider = "openai" -> OpenAIUninstall(S, i)
    [] S.insts[i].provider = "anthropic" -> AnthropicUninstall(S, i)
    [] S.insts[i].provider = "gemini" -> GeminiUninstall(S, i)
    [] OTHER -> ClaudeUninstall(S, i)

RECURSIVE UninstallEach(_, _)
\* uninstallAll(): for (const interceptor of installedInterceptors) interceptor.uninstall()
UninstallEach(S, list) ==
  IF list = <<>> THEN S ELSE UninstallEach(Uninstall(S, Head(list)), Tail(list))

\* uninstallAll(): ...; installedInterceptors.length = 0
UninstallAllState(S) == [UninstallEach(S, S.installed) EXCEPT !.installed = <<>>]

NeedsInstallAlways(flag) == TRUE

\* if (!interceptorsInstalled)
NeedsInstall(flag) == ~flag

\* The lazy installation at the head of learning() and withLearning()
LazyAutoInstall ==
  IF ~NeedsInstall(interceptorsInstalled)
  THEN UNCHANGED installVars
  ELSE /\ SetInstallState(AutoInstallState(InstallState))
       /\ autoInstalls' = autoInstalls + 1


\* ----------------------------------------------------------- scoped context
Impls == {"async_hooks", "context_frame"}

\* The argument of a pure function under observation, how often it was applied
\* and what it returned
Probe(kind, blocks, m, chunks) ==
  [kind |-> kind, blocks |-> blocks, m |-> m, chunks |-> chunks, runs |-> 0,
   outcome |-> "", out |-> <<>>, again |-> <<>>, arg |-> <<>>, res |-> <<>>]
NoProbe == Probe("none", <<>>, "", <<>>)

\* The same for a function whose argument is a record of its own
ProbeOf(kind, arg) == [Probe(kind, <<>>, "", <<>>) EXCEPT !.arg = arg]

\* '@google/generative-ai' exports GenerativeModel, or a build that does not
Sdk(geminiExported, provider, fault) ==
  [geminiExported |-> geminiExported, provider |-> provider, fault |-> fault]
PublishedSdk == Sdk(TRUE, "", "")

\* The published modules, the Gemini module without the class export, and one
\* provider's module missing or of a shape the interceptor does not know
Sdks ==
  {PublishedSdk, Sdk(FALSE, "", "")}
  \cup {Sdk(TRUE, p, f) : p \in Providers, f \in {"missing", "absent", "throws"}}

\* No provider call has just been made
NoCall == [valid |-> FALSE]

\* config.pendingUserMessage: the configurations that hold a buffered message
Forget(pend, cfg) == {p \in pend : p.cfg # cfg}
PendingOf(pend, cfg) ==
  IF \E p \in pend : p.cfg = cfg THEN (CHOOSE p \in pend : p.cfg = cfg).text ELSE <<>>

\* The caller holds a stream it has not taken to its end
StreamOpen ==
  /\ last.valid
  /\ last.outcome = "ok"
  /\ last.value.kind = "stream"
  /\ ~last.consumed

\* a configuration object lives while a store slot, an open activation or the
\* wrapper of an open stream refers to it
Referenced(st, sc, cfg) ==
  \/ \E c \in Chains : st[c] = cfg
  \/ \E c \in Chains : \E k \in 1..Len(sc[c]) : sc[c][k].cfg = cfg \/ sc[c][k].prev = cfg
  \/ IF StreamOpen
     THEN \E k \in 1..Len(last.value.layers) : last.value.layers[k].cfg = cfg
     ELSE FALSE

Live(pend, st, sc) == {p \in pend : Referenced(st, sc, p.cfg)}

\* What a chain saw when it left a scope: was getCurrentConfig() what it had
\* been before entry, was a configuration current before entry, and what the
\* caller of withLearning() received for fn's outcome.
NoExit ==
  [valid |-> FALSE, chain |-> 0, kind |-> "", restored |-> TRUE, nested |-> FALSE,
   fnOutcome |-> "", callerOutcome |-> ""]

ExitRecord(c, kind, expected, observed, fnOutcome, callerOutcome) ==
  [valid |-> TRUE, chain |-> c, kind |-> kind, restored |-> (observed = expected),
   nested |-> (expected # NoCfg), fnOutcome |-> fnOutcome,
   callerOutcome |-> callerOutcome]

Depth(c) == Len(scopes[c])
Top(c) == scopes[c][Len(scopes[c])]
Pop(q) == SubSeq(q, 1, Len(q) - 1)

\* The chain is executing user code (it is not parked on a withLearning()
\* whose fn threw synchronously).
Running(c) == IF Depth(c) = 0 THEN TRUE ELSE Top(c).body = "running"

\* JavaScript runs each synchronous segment to completion; the record of a
\* provider call is looked at before anything else happens
HasThread(c) == running \in {0, c} /\ ~last.valid

\* exit() may also be called while the caller holds a stream it has not begun
\* to take
MayLeave(c) ==
  /\ running \in {0, c}
  /\ IF last.valid THEN StreamOpen /\ last.delivered = 0 ELSE TRUE

\* learningContext.enterWith(store): enables the storage, binds the store
EnterWith(cfg) == [enabled |-> TRUE, store |-> cfg]

\* learningContext.disable().  async_hooks: the instance is switched off for the
\* whole process and the resource's slot is left as it is.  context_frame: the
\* store is removed from the caller's frame.
Disable(en, st) ==
  IF impl = "async_hooks" THEN [enabled |-> FALSE, store |-> st]
  ELSE [enabled |-> en, store |-> NoCfg]

\* exit(): enterWith(previousStore) when there is one, else learningContext.disable()
ExitEffect(en, st, previousStore) ==
  IF previousStore # NoCfg THEN EnterWith(previousStore) ELSE Disable(en, st)

\* learningContext.run(config, fn): the finally block puts the old store back
RunFinally(oldStore, config) == oldStore

\* withLearning returns what run() returns, which is what fn returned or threw
WithLearningReturn(fnOutcome) == fnOutcome

\* learning(options)
Learning(c, agent, co) ==
  /\ HasThread(c)
  /\ Depth(c) < MaxDepth
  /\ Running(c)
  /\ LazyAutoInstall
  /\ interceptorsInstalled' = TRUE
  /\ LET previousStore == GetStore(enabled, store, c)
         config == MkConfig(c, Depth(c) + 1, agent, co)
         e == EnterWith(config)
     IN /\ enabled' = e.enabled
        /\ store' = [store EXCEPT ![c] = e.store]
        /\ scopes' = [scopes EXCEPT ![c] =
             Append(@, [kind |-> "learning", cfg |-> config, prev |-> previousStore,
                        before |-> GetCurrentConfig(c), body |-> "running"])]
  /\ lastExit' = NoExit
  /\ running' = 0
  /\ last' = NoCall
  /\ pending' = Live(Forget(pending, MkConfig(c, Depth(c) + 1, agent, co)), store', scopes')
  /\ UNCHANGED <<impl, sdk, probe>>

\* await learning(options, fn), the form of the README and the examples:
\* learning takes one parameter, so fn is dropped unseen; the scope is entered
\* as by learning(options); the caller awaits the {exit} object, which is no
\* promise, and goes on without a handle to call exit() on.  The record is what
\* the caller finds once the await is over.
LearningWithFn(c, agent, co) ==
  /\ HasThread(c)
  /\ Depth(c) < MaxDepth
  /\ Running(c)
  /\ LazyAutoInstall
  /\ interceptorsInstalled' = TRUE
  /\ LET previousStore == GetStore(enabled, store, c)
         config == MkConfig(c, Depth(c) + 1, agent, co)
         e == EnterWith(config)
         st == [store EXCEPT ![c] = e.store]
     IN /\ enabled' = e.enabled
        /\ store' = st
        /\ scopes' = [scopes EXCEPT ![c] =
             Append(@, [kind |-> "dropped", cfg |-> config, prev |-> previousStore,
                        before |-> GetCurrentConfig(c), body |-> "running"])]
        /\ lastExit' = ExitRecord(c, "dropped", GetCurrentConfig(c),
                                  GetStore(e.enabled, st, c), "", "resolve")
  /\ running' = 0
  /\ last' = NoCall
  /\ pending' = Live(Forget(pending, MkConfig(c, Depth(c) + 1, agent, co)), store', scopes')
  /\ UNCHANGED <<impl, sdk, probe>>

\* the exit() closure returned by learning(); the chain keeps the thread when
\* it leaves a store behind in a switched-off storage
Exit(c) ==
  /\ MayLeave(c)
  /\ Depth(c) > 0
  /\ Top(c).kind = "learning"
  /\ LET e == ExitEffect(enabled, store[c], Top(c).prev)
         st == [store EXCEPT ![c] = e.store]
     IN /\ enabled' = e.enabled
        /\ store' = st
        /\ lastExit' = ExitRecord(c, "learning", Top(c).before,
                                  GetStore(e.enabled, st, c), "", "")
        /\ running' = IF ~e.enabled /\ e.store # NoCfg THEN c ELSE 0
  /\ scopes' = [scopes EXCEPT ![c] = Pop(@)]
  /\ pending' = Live(pending, store', scopes')
  /\ UNCHANGED <<impl, sdk, probe, interceptorsInstalled, installVars, last>>

\* withLearning(options, fn) up to fn's first await, or to fn's synchronous throw
WithLearning(c, agent, co, throws) ==
  /\ HasThread(c)
  /\ Depth(c) < MaxDepth
  /\ Running(c)
  /\ LazyAutoInstall
  /\ interceptorsInstalled' = TRUE
  /\ LET oldStore == store[c]
         config == MkConfig(c, Depth(c) + 1, agent, co)
     IN /\ enabled' = TRUE
        /\ store' = [store EXCEPT ![c] =
             IF throws THEN RunFinally(oldStore, config) ELSE config]
        /\ scopes' = [scopes EXCEPT ![c] =
             Append(@, [kind |-> "with", cfg |-> config,
                        prev |-> RunFinally(oldStore, config),
                        before |-> GetCurrentConfig(c),
                        body |-> IF throws THEN "thrown" ELSE "running"])]
  /\ lastExit' = NoExit
  /\ running' = 0
  /\ last' = NoCall
  /\ pending' = Live(Forget(pending, MkConfig(c, Depth(c) + 1, agent, co)), store', scopes')
  /\ UNCHANGED <<impl, sdk, probe>>

\* fn settles and the caller awaiting withLearning() resumes: the caller's
\* continuation was created right after run() returned and holds the store
\* run() put back
WithSettle(c, outcome) ==
  /\ HasThread(c)
  /\ Depth(c) > 0
  /\ Top(c).kind = "with"
  /\ outcome \in (IF Top(c).body = "thrown" THEN {"throw"} ELSE {"resolve", "reject"})
  /\ LET st == [store EXCEPT ![c] = Top(c).prev]
     IN /\ store' = st
        /\ lastExit' = ExitRecord(c, "with", Top(c).before, GetStore(enabled, st, c),
                                  outcome, WithLearningReturn(outcome))
  /\ scopes' = [scopes EXCEPT ![c] = Pop(@)]
  /\ running' = 0
  /\ last' = NoCall
  /\ pending' = Live(pending, store', scopes')
  /\ UNCHANGED <<impl, sdk, probe, enabled, interceptorsInstalled, installVars>>

\* An await in user code while the storage is switched off: the continuation
\* starts without a store
Await(c) ==
  /\ MayLeave(c)
  /\ ~enabled
  /\ store[c] # NoCfg
  /\ store' = [store EXCEPT ![c] = Propagate(enabled, store[c])]
  /\ lastExit' = NoExit
  /\ running' = 0
  /\ pending' = Live(pending, store', scopes)
  /\ UNCHANGED <<impl, sdk, probe, enabled, scopes, interceptorsInstalled, installVars, last>>

\* The state after the modules are loaded: no store, nothing installed, no
\* call made.  The runtime's AsyncLocalStorage implementation is fixed for the
\* life of the process.
Init ==
  /\ impl \in Impls
  /\ sdk = PublishedSdk
  /\ probe = NoProbe
  /\ running = 0
  /\ enabled = FALSE
  /\ store = [c \in Chains |-> NoCfg]
  /\ scopes = [c \in Chains |-> <<>>]
  /\ lastExit = NoExit
  /\ interceptorsInstalled = FALSE
  /\ autoInstalls = 0
  /\ insts = <<>>
  /\ wrappers = <<>>
  /\ proto = [m \in Methods |-> Original]
  /\ installedInterceptors = <<>>
  /\ anthropicGlobal = [installed |-> FALSE, interceptor |-> 0]
  /\ raised = FALSE
  /\ last = NoCall
  /\ pending = {}

\* The same, for any shape of the provider SDK modules
InitAnySdk ==
  /\ impl \in Impls
  /\ sdk \in Sdks
  /\ probe = NoProbe
  /\ running = 0
  /\ enabled = FALSE
  /\ store = [c \in Chains |-> NoCfg]
  /\ scopes = [c \in Chains |-> <<>>]
  /\ lastExit = NoExit
  /\ interceptorsInstalled = FALSE
  /\ autoInstalls = 0
  /\ insts = <<>>
  /\ wrappers = <<>>
  /\ proto = [m \in Methods |-> Original]
  /\ installedInterceptors = <<>>
  /\ anthropicGlobal = [installed |-> FALSE, interceptor |-> 0]
  /\ raised = FALSE
  /\ last = NoCall
  /\ pending = {}

\* Each chain activates scopes for an agent of its own.
AgentOf(c) == IF c = 1 THEN "a1" ELSE "a2"

NextScope ==
  \E c \in Chains :
    \/ Learning(c, AgentOf(c), FALSE)
    \/ Exit(c)
    \/ \E throws \in BOOLEAN : WithLearning(c, AgentOf(c), FALSE, throws)
    \/ \E outcome \in {"resolve", "reject", "throw"} : WithSettle(c, outcome)
    \/ Await(c)

SpecScope == Init /\ [][NextScope]_vars

\* The same with the one-line form in use as well
NextOneLine ==
  \E c \in Chains :
    \/ LearningWithFn(c, AgentOf(c), FALSE)
    \/ Learning(c, AgentOf(c), FALSE)
    \/ Exit(c)
    \/ Await(c)

SpecOneLine == Init /\ [][NextOneLine]_vars

\* ------------------------------------------------------------ memory service
\* A text is a sequence of tokens; `${a}\n\n${b}` is a \o b.
NoText == <<>>

\* Memory blocks held by the memory service: agent "a1" has one block with a
\* value, agent "a2" has none.
\* MemoryBlock {label, value, description?}; isNull: a null entry of the list
Block(label, description, value) ==
  [label |-> label, description |-> description, value |-> value, isNull |-> FALSE]
NullBlock == [label |-> "", description |-> <<>>, value |-> <<>>, isNull |-> TRUE]

MemoryList(agent) ==
  IF agent = "a1" THEN <<Block("human", NoText, <<"Bob">>)>> ELSE <<>>

\* A section that puts the value in the place of the label
SectionLabelLost(block) ==
  <<"<">> \o block.value \o <<">", "<value>">> \o block.value \o <<"</value>", "</">>
    \o block.value \o <<">">>

\* The lines pushed for one block that has a value
Section(block) ==
  <<"<" \o block.label \o ">">>
    \o (IF block.description # NoText
        THEN <<"<description>">> \o block.description \o <<"</description>">>
        ELSE <<>>)
    \o <<"<value>">> \o block.value
    \o <<"</value>", "</" \o block.label \o ">">>

RECURSIVE FormattedLines(_)
\* The loop over the blocks: entries that are null or have no value are skipped
FormattedLines(blocks) ==
  IF blocks = <<>> THEN <<>>
  ELSE LET block == Head(blocks)
       IN (IF block.isNull \/ block.value = NoText THEN <<>> ELSE Section(block))
          \o FormattedLines(Tail(blocks))

\* A formatter without the check for an empty list of lines
FormatWithoutEmptyCheck(blocks) ==
  IF blocks = <<>> THEN NoText
  ELSE <<"<memory_blocks>", "The following memory blocks are currently engaged:">>
         \o FormattedLines(blocks) \o <<"</memory_blocks>">>

\* formatMemoryBlocks(blocks): null (NoText) for no block or no block with a value
formatMemoryBlocks(blocks) ==
  IF blocks = <<>> THEN NoText
  ELSE IF FormattedLines(blocks) = <<>> THEN NoText
  ELSE <<"<memory_blocks>", "The following memory blocks are currently engaged:">>
         \o FormattedLines(blocks) \o <<"</memory_blocks>">>

\* client.memory.context.retrieve(agent), when memory.list() succeeds
Retrieve(agent) ==
  IF MemoryList(agent) = <<>> THEN NoText ELSE formatMemoryBlocks(MemoryList(agent))

\* ------------------------------------------------------------------ requests
\* One record shape for every provider's request; a field a request does not
\* carry is empty (and reads as falsy, as it does in the code).
\*   messages: params.messages (OpenAI chat, Anthropic)
\*   input:    params.input (OpenAI Responses)
\*   system:   params.system (Anthropic); options.systemPrompt of the transport
\*             a write goes to (Claude)
\*   contents: Gemini request: form "string", "array" or "object" ({contents})
\*   data:     the JSON text written to the Claude transport: a user message
\*   stream:   params.stream
Req(messages, input, system, form, contents, data, stream) ==
  [messages |-> messages, input |-> input, system |-> system, form |-> form,
   contents |-> contents, data |-> data, stream |-> stream]

UserText == <<"My name is Alice">>
SystemText == <<"Be brief">>

Requests(m) ==
  CASE m = "completions.create" ->
         { Req(msgs, NoText, NoText, "", <<>>, NoText, FALSE) :
             msgs \in { <<[role |-> "user", content |-> UserText]>>,
                        <<[role |-> "system", content |-> SystemText],
                          [role |-> "user", content |-> UserText]>> } }
         \cup { Req(<<[role |-> "user", content |-> UserText]>>, NoText, NoText, "",
                    <<>>, NoText, TRUE) }
    [] m = "responses.create" ->
         { Req(<<>>, inp, NoText, "", <<>>, NoText, FALSE) : inp \in {UserText, NoText} }
    [] m = "messages.create" ->
         { Req(<<[role |-> "user", content |-> UserText]>>, NoText, sys, "", <<>>,
               NoText, FALSE) : sys \in {NoText, SystemText} }
         \cup { Req(<<[role |-> "user", content |-> UserText]>>, NoText, SystemText, "",
                    <<>>, NoText, TRUE) }
    [] m = "generateContent" ->
         { Req(<<>>, NoText, NoText, form, <<UserText>>, NoText, FALSE) :
             form \in {"string", "array", "object"} }
    [] m = "generateContentStream" ->
         { Req(<<>>, NoText, NoText, form, <<UserText>>, NoText, FALSE) :
             form \in {"string", "object"} }
    [] m = "write" ->
         { Req(<<>>, NoText, SystemText, "", <<>>, UserText, FALSE) }
    [] OTHER ->
         { Req(<<>>, NoText, NoText, "", <<>>, NoText, FALSE) }

RECURSIVE JoinUser(_)
\* the contents of the user messages, joined
JoinUser(msgs) ==
  IF msgs = <<>> THEN NoText
  ELSE (IF Head(msgs).role = "user" THEN Head(msgs).content ELSE NoText)
       \o JoinUser(Tail(msgs))

RECURSIVE JoinTexts(_)
JoinTexts(texts) ==
  IF texts = <<>> THEN NoText ELSE Head(texts) \o JoinTexts(Tail(texts))

\* extractUserMessages(params) of each interceptor; interceptResponsesCreate
\* takes params.input || ''
extractUserMessages(m, req) ==
  CASE m \in {"completions.create", "messages.create"} -> JoinUser(req.messages)
    [] m = "responses.create" -> req.input
    [] m \in {"generateContent", "generateContentStream"} -> JoinTexts(req.contents)
    [] OTHER -> req.data

HasSystemMessage(msgs) == \E k \in 1..Len(msgs) : msgs[k].role = "system"

\* injectMemoryContext(params, context) of each interceptor
injectMemoryContext(m, req, context) ==
  IF context = NoText THEN req
  ELSE CASE m \in {"completions.create", "responses.create"} ->
         LET r1 == IF req.messages = <<>> THEN req
                   ELSE IF HasSystemMessage(req.messages)
                   THEN [req EXCEPT !.messages =
                           [k \in 1..Len(req.messages) |->
                              IF req.messages[k].role = "system"
                              THEN [req.messages[k] EXCEPT !.content = context \o @]
                              ELSE req.messages[k]]]
                   ELSE [req EXCEPT !.messages =
                           <<[role |-> "system", content |-> context]>> \o @]
         IN IF r1.input # NoText THEN [r1 EXCEPT !.input = context \o @] ELSE r1
       [] m = "messages.create" -> [req EXCEPT !.system = context \o @]
       [] m \in {"generateContent", "generateContentStream"} ->
         IF req.form = "string"
         THEN [req EXCEPT !.contents = <<context \o JoinTexts(req.contents)>>]
         ELSE [req EXCEPT !.contents = <<context>> \o @]
       [] OTHER -> req

\* every token of a request, in order
Flatten(req) ==
  JoinTexts([k \in 1..Len(req.messages) |-> req.messages[k].content])
  \o req.input \o req.system \o JoinTexts(req.contents) \o req.data

\* the text occurs in the request
ContainsText(req, text) ==
  LET flat == Flatten(req)
  IN \E k \in 1..(Len(flat) + 1) :
       k + Len(text) - 1 <= Len(flat) /\ SubSeq(flat, k, k + Len(text) - 1) = text

\* ----------------------------------------------------------------- provider
\* A provider response or stream chunk: its text, and whether reading the text
\* throws (Gemini's text() accessor throws on a blocked candidate).
Resp(text, blocked) == [text |-> text, blocked |-> blocked]
NoResp == Resp(NoText, FALSE)
MockResponse == Resp(<<"Mock response">>, FALSE)
BlockedResponse == Resp(NoText, TRUE)

\* What a call hands back: a response, a stream (with the wrappers put around
\* it, innermost first), or the result of a transport write.
Value(kind, resp, chunks, layers) ==
  [kind |-> kind, resp |-> resp, chunks |-> chunks, layers |-> layers]
NoValue == Value("", NoResp, <<>>, <<>>)

\* What happened during a call: each wrapper's invocation of its stored
\* original, the requests that reached the SDK's true method, memory
\* retrievals, texts buffered in config.pendingUserMessage, Turns handed to
\* the capture pipeline.
NoEvents == [calls |-> <<>>, prov |-> <<>>, retrievals |-> 0, buffered |-> <<>>,
             turns |-> <<>>]

Result(outcome, error, value, ev) ==
  [outcome |-> outcome, error |-> error, value |-> value, ev |-> ev]

IsStreaming(m, req) ==
  CASE m \in {"completions.create", "messages.create"} -> req.stream
    [] m \in {"generateContentStream", "readMessages"} -> TRUE
    [] OTHER -> FALSE

\* The SDK's own method: the provider fails, or answers with env.resp, or
\* opens a stream of env.chunks.
OriginalCall(m, req, env) ==
  LET ev == [NoEvents EXCEPT !.prov = <<req>>]
  IN IF env.origThrows THEN Result("throw", "ProviderError", NoValue, ev)
     ELSE IF m = "write" THEN Result("ok", "", Value("written", NoResp, <<>>, <<>>), ev)
     ELSE IF IsStreaming(m, req)
     THEN Result("ok", "", Value("stream", NoResp, env.chunks, <<>>), ev)
     ELSE Result("ok", "", Value("response", env.resp, <<>>, <<>>), ev)

\* --------------------------------------------------------------- interceptors
Turn(agent, provider, request, response) ==
  [agent |-> agent, provider |-> provider, request |-> request, response |-> response]

\* buildRequestMessages(userMessage)
buildRequestMessages(userMessage) == <<[role |-> "user", content |-> userMessage]>>

\* extractAssistantMessage(response) throws when reading the text throws
ExtractThrows(m, resp) == ProviderOf(m) = "gemini" /\ resp.blocked

\* buildResponseDict(response)
buildResponseDict(resp) == [role |-> "assistant", content |-> resp.text]

\* saveConversationTurn that goes on without a configuration
SaveWithoutConfigCheck(cfg, provider, requestMessages, responseDict) ==
  <<Turn(cfg.agentName, provider, requestMessages, responseDict)>>

\* saveConversationTurn: reads getCurrentConfig() itself; nothing happens
\* without one
saveConversationTurn(cfg, provider, requestMessages, responseDict) ==
  IF cfg = NoCfg THEN <<>>
  ELSE <<Turn(cfg.agentName, provider, requestMessages, responseDict)>>

\* retrieveAndInjectMemory whose catch block hands back nothing of the request
RetrieveAndInjectLosingRequest(m, config, kwargs, env) ==
  IF config.captureOnly THEN [req |-> kwargs, retrievals |-> 0]
  ELSE IF env.memFails
  THEN [req |-> [kwargs EXCEPT !.messages = <<>>, !.input = NoText,
                               !.contents = <<>>], retrievals |-> 1]
  ELSE [req |-> injectMemoryContext(m, kwargs, Retrieve(config.agentName)),
        retrievals |-> 1]

\* retrieveAndInjectMemory without the captureOnly check
RetrieveAndInjectAlways(m, config, kwargs, env) ==
  IF env.memFails THEN [req |-> kwargs, retrievals |-> 1]
  ELSE [req |-> injectMemoryContext(m, kwargs, Retrieve(config.agentName)),
        retrievals |-> 1]

\* retrieveAndInjectMemory(config, kwargs)
retrieveAndInjectMemory(m, config, kwargs, env) ==
  IF config.captureOnly THEN [req |-> kwargs, retrievals |-> 0]
  ELSE IF env.memFails THEN [req |-> kwargs, retrievals |-> 1]
  ELSE [req |-> injectMemoryContext(m, kwargs, Retrieve(config.agentName)),
        retrievals |-> 1]

\* the function a wrapper calls as the original: originalMethods.get(name) of
\* its interceptor, or the function its closure captured (Claude)
StoredOriginal(w) ==
  IF wrappers[w].closure THEN wrappers[w].captured
  ELSE insts[wrappers[w].inst].originalMethods[wrappers[w].m]

\* a wrapper that intercepts whether or not a configuration is current
PassThroughNever(cfg) == FALSE

\* `if (!config)`: no learning context active - pass through
PassThrough(cfg) == cfg = NoCfg

\* The promise saveConversationTurn returns settles: at once without a
\* configuration, else when the memory service has answered
CaptureSettles(cfg, env) == cfg = NoCfg \/ ~env.captureHangs

\* `await saveConversationTurn(...).catch(...)`; `return response` comes after it
AwaitCapture(saved, settles) ==
  IF settles THEN saved ELSE Result("hang", "", NoValue, saved.ev)

\* a wrapper that goes on to the capture whatever the original came to
PropagatesNever(r) == FALSE

\* `const response = await originalMethod.call(context, params, options)`
\* outside any try block: when the original throws, or never settles, the
\* wrapper's code after it does not run
Propagates(r) == r.outcome \in {"throw", "hang"}

RECURSIVE Invoke(_, _, _, _, _)
\* Calling function f (the SDK's original or a wrapper) as method m
Invoke(f, m, req, cfg, env) ==
  IF f = Original THEN OriginalCall(m, req, env)
  ELSE
    LET call == [w |-> f, req |-> req]
        transport == ProviderOf(m) = "claude"
        user == extractUserMessages(m, req)
        inj == IF PassThrough(cfg) \/ transport THEN [req |-> req, retrievals |-> 0]
               ELSE retrieveAndInjectMemory(m, cfg, req, env)
        r == Invoke(StoredOriginal(f), m, inj.req, cfg, env)
        ev == [r.ev EXCEPT !.calls = <<[w |-> f, req |-> inj.req]>> \o @,
                           !.retrievals = @ + inj.retrievals,
                           !.buffered = IF ~PassThrough(cfg) /\ m = "write" /\ user # NoText
                                        THEN <<user>> \o @ ELSE @]
    IN IF PassThrough(cfg) \/ Propagates(r) \/ m = "write"
       THEN [r EXCEPT !.ev = ev]
       ELSE IF IsStreaming(m, inj.req)
       THEN [r EXCEPT !.ev = ev,
                      !.value.layers = Append(@, [w |-> f, m |-> m, user |-> user,
                                                  cfg |-> cfg])]
       ELSE IF ExtractThrows(m, r.value.resp)
       THEN Result("throw", "ResponseTextError", NoValue, ev)
       ELSE LET saved == [r EXCEPT !.ev = [ev EXCEPT !.turns = @ \o
                  saveConversationTurn(cfg, ProviderOf(m), buildRequestMessages(user),
                                       buildResponseDict(r.value.resp))]]
            IN AwaitCapture(saved, CaptureSettles(cfg, env))

\* buildResponseFromChunks(chunks): the chunks' texts joined; Gemini reads
\* each chunk through its text() accessor, which may throw
BuildThrows(m, chunks) ==
  ProviderOf(m) = "gemini" /\ \E k \in 1..Len(chunks) : chunks[k].blocked

buildResponseFromChunks(chunks) ==
  Resp(JoinTexts([k \in 1..Len(chunks) |-> chunks[k].text]), FALSE)

RECURSIVE Finalize(_, _, _, _)
\* The finally blocks of the wrappers around a stream, innermost first, once
\* the consumer has taken every chunk (wrapStreamingResponse, and
\* wrapMessageIterator for the Claude transport).  acc: what the consumer gets
\* at the end, the Turns handed over, config.pendingUserMessage.
Finalize(layers, chunks, cfgNow, acc) ==
  IF layers = <<>> THEN acc
  ELSE
    LET L == Head(layers)
        assistant == buildResponseFromChunks(chunks)
        buffered == PendingOf(acc.pend, L.cfg)
        next ==
          IF ProviderOf(L.m) = "claude"
          THEN IF buffered # NoText \/ assistant.text # NoText
               THEN [acc EXCEPT
                       !.turns = @ \o saveConversationTurn(cfgNow, "claude",
                                   IF buffered # NoText
                                   THEN buildRequestMessages(buffered) ELSE <<>>,
                                   buildResponseDict(assistant)),
                       !.pend = Forget(@, L.cfg)]
               ELSE acc
          ELSE IF Len(chunks) > 0 /\ L.user # NoText
               THEN IF BuildThrows(L.m, chunks)
                    THEN [acc EXCEPT !.outcome = "throw"]
                    ELSE [acc EXCEPT
                            !.turns = @ \o saveConversationTurn(cfgNow, ProviderOf(L.m),
                                        buildRequestMessages(L.user),
                                        buildResponseDict(assistant))]
               ELSE acc
    IN Finalize(Tail(layers), chunks, cfgNow, next)

\* ------------------------------------------------------------------- actions
\* autoInstall() called by the application
AutoInstall ==
  /\ running = 0
  /\ ~last.valid
  /\ autoInstalls - (IF interceptorsInstalled THEN 1 ELSE 0) < MaxInstalls
  /\ SetInstallState(AutoInstallState(InstallState))
  /\ autoInstalls' = autoInstalls + 1
  /\ last' = NoCall
  /\ lastExit' = NoExit
  /\ UNCHANGED <<impl, sdk, probe, running, enabled, store, scopes, interceptorsInstalled, pending>>

\* enableAnthropicInterception(client)
EnableAnthropicInterception ==
  /\ running = 0
  /\ ~last.valid
  /\ anthropicGlobal.interceptor # 0
  /\ ~anthropicGlobal.installed
  /\ SetInstallState(LazyInstall(InstallState))
  /\ last' = NoCall
  /\ lastExit' = NoExit
  /\ UNCHANGED <<impl, sdk, probe, running, enabled, store, scopes, interceptorsInstalled,
                 autoInstalls, pending>>

\* uninstallAll() called by the application
UninstallAll ==
  /\ running = 0
  /\ ~last.valid
  /\ installedInterceptors # <<>>
  /\ SetInstallState(UninstallAllState(InstallState))
  /\ last' = NoCall
  /\ lastExit' = NoExit
  /\ UNCHANGED <<impl, sdk, probe, running, enabled, store, scopes, interceptorsInstalled,
                 autoInstalls, pending>>

\* The provider's behaviours a call may meet
Chunk1 == Resp(<<"Mock">>, FALSE)
Chunk2 == Resp(<<"response">>, FALSE)

\* captureHangs: the memory service never answers the capture pipeline's
\* requests (agents.retrieve / agents.create / messages.capture)
\* chunks, streamEnd: what the provider's stream yields and how it ends then,
\* "done" or "error"
Env(origThrows, memFails, captureHangs, resp, chunks, streamEnd) ==
  [origThrows |-> origThrows, memFails |-> memFails, captureHangs |-> captureHangs,
   resp |-> resp, chunks |-> chunks, streamEnd |-> streamEnd]

Envs(m, req) ==
  { Env(TRUE, mf, FALSE, NoResp, <<>>, "done") : mf \in BOOLEAN }
  \cup (IF m = "write" THEN { Env(FALSE, FALSE, FALSE, NoResp, <<>>, "done") }
        ELSE IF IsStreaming(m, req)
        THEN { e \in
               { Env(FALSE, mf, FALSE, NoResp, ch, end) :
                 mf \in BOOLEAN, end \in {"done", "error"},
                 ch \in {<<>>, <<Chunk1, Chunk2>>}
                        \cup (IF ProviderOf(m) = "gemini"
                              THEN {<<Chunk1, BlockedResponse>>} ELSE {}) } :
               e.memFails => (e.streamEnd = "done" /\ e.chunks = <<Chunk1, Chunk2>>) }
        ELSE { Env(FALSE, mf, FALSE, rs, <<>>, "done") :
                 mf \in BOOLEAN,
                 rs \in {MockResponse}
                        \cup (IF ProviderOf(m) = "gemini"
                              THEN {BlockedResponse} ELSE {}) }
             \cup { Env(FALSE, FALSE, TRUE, MockResponse, <<>>, "done") })

\* the memory service is asked during a call of m under this configuration
Retrieves(cfg, m) == cfg # NoCfg /\ ~cfg.captureOnly /\ ProviderOf(m) # "claude"

\* The application calls SDK method m: whatever function the prototype holds
\* now runs, down to the SDK's own method and back.
Call(c, m, req, env) ==
  /\ running = 0
  /\ ~last.valid
  /\ Running(c)
  /\ env.memFails => Retrieves(GetCurrentConfig(c), m)
  /\ env.captureHangs => (proto[m] # Original /\ GetCurrentConfig(c) # NoCfg)
  /\ LET cfg == GetCurrentConfig(c)
         r == Invoke(proto[m], m, req, cfg, env)
     IN /\ last' = [valid |-> TRUE, chain |-> c, m |-> m, req |-> req, cfg |-> cfg,
                    env |-> env, fn |-> proto[m], outcome |-> r.outcome,
                    error |-> r.error, value |-> r.value, ev |-> r.ev,
                    delivered |-> 0, got |-> <<>>,
                    consumed |-> FALSE, streamOutcome |-> ""]
        /\ pending' = IF r.ev.buffered = <<>> THEN pending
                      ELSE Forget(pending, cfg)
                           \cup {[cfg |-> cfg, text |-> r.ev.buffered[Len(r.ev.buffered)]]}
  /\ lastExit' = NoExit
  /\ UNCHANGED <<impl, sdk, probe, running, enabled, store, scopes, interceptorsInstalled, installVars>>

\* a wrapper that yields a chunk of its own making
YieldChanged(L, chunk) == [chunk EXCEPT !.text = @ \o @]

\* `yield chunk` of a wrapper: the chunk goes on as it came
Yield(L, chunk) == chunk

RECURSIVE ReYield(_, _)
\* A chunk of the provider's stream on its way through the wrappers, innermost
\* first, to the caller
ReYield(layers, chunk) ==
  IF layers = <<>> THEN chunk ELSE ReYield(Tail(layers), Yield(Head(layers), chunk))

\* The caller takes the next chunk of the stream it was handed
NextChunk(c) ==
  /\ running = 0
  /\ StreamOpen
  /\ last.chain = c
  /\ last.delivered < Len(last.value.chunks)
  /\ last' = [last EXCEPT
       !.delivered = @ + 1,
       !.got = Append(@, ReYield(last.value.layers, last.value.chunks[last.delivered + 1]))]
  /\ UNCHANGED <<scopeVars, installVars, pending>>

\* How the stream ends for the caller once the wrappers' finally blocks have
\* run over the chunks seen
StreamEnds(c, seen, end) ==
  LET f == Finalize(last.value.layers, seen, GetCurrentConfig(c),
                    [outcome |-> end, turns |-> <<>>, pend |-> pending])
  IN /\ last' = [last EXCEPT !.consumed = TRUE, !.streamOutcome = f.outcome,
                             !.ev.turns = @ \o f.turns]
     /\ pending' = f.pend

\* The provider's stream is exhausted or fails after its last chunk
EndStream(c) ==
  /\ running = 0
  /\ StreamOpen
  /\ last.chain = c
  /\ last.delivered = Len(last.value.chunks)
  /\ StreamEnds(c, last.value.chunks, last.env.streamEnd)
  /\ UNCHANGED <<scopeVars, installVars>>

\* The caller leaves its loop early: return() runs the finally blocks
Cancel(c) ==
  /\ running = 0
  /\ StreamOpen
  /\ last.chain = c
  /\ last.delivered >= 1
  /\ last.delivered < Len(last.value.chunks)
  /\ StreamEnds(c, SubSeq(last.value.chunks, 1, last.delivered), "cancelled")
  /\ UNCHANGED <<scopeVars, installVars>>

\* The caller goes on after the call (and after the stream, if it took it)
Return(c) ==
  /\ last.valid
  /\ last.chain = c
  /\ last' = NoCall
  /\ UNCHANGED <<scopeVars, installVars, pending>>

\* One call chain that installs, activates one scope at a time (nesting is
\* the subject of SpecScope) and calls the providers
Callers == {1}

NextCall ==
  \E Caller \in Callers :
    \/ \E agent \in Agents, co \in BOOLEAN :
         Depth(Caller) = 0 /\ Learning(Caller, agent, co)
    \/ Exit(Caller)
    \/ \E agent \in Agents, co \in BOOLEAN :
         Depth(Caller) = 0 /\ WithLearning(Caller, agent, co, FALSE)
    \/ \E outcome \in {"resolve", "reject", "throw"} : WithSettle(Caller, outcome)
    \/ Await(Caller)
    \/ AutoInstall
    \/ EnableAnthropicInterception
    \/ \E m \in Methods : \E req \in Requests(m) : \E env \in Envs(m, req) :
         Call(Caller, m, req, env)
    \/ NextChunk(Caller)
    \/ EndStream(Caller)
    \/ Cancel(Caller)
    \/ Return(Caller)

SpecCall == Init /\ [][NextCall]_vars

\* learning(options) called while the caller holds a stream it has not taken
\* to its end
LearningMidStream(c, agent, co) ==
  /\ running \in {0, c}
  /\ StreamOpen
  /\ last.chain = c
  /\ Depth(c) < MaxDepth
  /\ Running(c)
  /\ LazyAutoInstall
  /\ interceptorsInstalled' = TRUE
  /\ LET previousStore == GetStore(enabled, store, c)
         config == MkConfig(c, Depth(c) + 1, agent, co)
         e == EnterWith(config)
     IN /\ enabled' = e.enabled
        /\ store' = [store EXCEPT ![c] = e.store]
        /\ scopes' = [scopes EXCEPT ![c] =
             Append(@, [kind |-> "learning", cfg |-> config, prev |-> previousStore,
                        before |-> GetCurrentConfig(c), body |-> "running"])]
  /\ lastExit' = NoExit
  /\ running' = 0
  /\ pending' = Live(Forget(pending, MkConfig(c, Depth(c) + 1, agent, co)), store', scopes')
  /\ UNCHANGED <<impl, sdk, probe, last>>

\* One call chain that opens streams under a scope and leaves the scope, or
\* enters another, before it takes the stream to its end
NextHandoff ==
  \E Caller \in Callers :
    \/ \E agent \in Agents : Depth(Caller) = 0 /\ Learning(Caller, agent, FALSE)
    \/ \E agent \in Agents : LearningMidStream(Caller, agent, FALSE)
    \/ Exit(Caller)
    \/ Await(Caller)
    \/ \E m \in Methods : \E req \in Requests(m) : \E env \in Envs(m, req) :
         IsStreaming(m, req) /\ ~env.origThrows /\ Call(Caller, m, req, env)
    \/ NextChunk(Caller)
    \/ EndStream(Caller)
    \/ Cancel(Caller)
    \/ Return(Caller)

SpecHandoff == Init /\ [][NextHandoff]_vars

\* ------------------------------------------------- system / instruction field
\* params.system of an Anthropic request and options.systemPrompt of a Claude
\* transport: "absent", a "string", a list of content "blocks" (Anthropic), a
\* "preset" object {type, preset} or one with an "append" text (Claude).
\* parts: the string, the blocks' texts, or the append text
Field(shape, parts) == [shape |-> shape, parts |-> parts]

FieldText(f) == JoinTexts(f.parts)

\* if (params.system): a missing field, '' and undefined are falsy; an array,
\* even an empty one, and an object are not
Truthy(f) == f.shape # "absent" /\ ~(f.shape = "string" /\ FieldText(f) = NoText)

\* AnthropicInterceptor.injectMemoryContext on params.system
InjectAnthropicSystem(f, context) ==
  IF context = NoText THEN f
  ELSE IF ~Truthy(f) THEN Field("string", <<context>>)
  ELSE IF f.shape = "string" THEN Field("string", <<context \o FieldText(f)>>)
  ELSE IF f.shape = "blocks" THEN Field("blocks", <<context>> \o f.parts)
  ELSE f

\* ClaudeInterceptor.injectMemoryContext on options.systemPrompt (and the same
\* lines in injectMemoryIntoOptions)
InjectClaudeSystem(f, context) ==
  IF context = NoText THEN f
  ELSE IF ~Truthy(f) THEN Field("string", <<context>>)
  ELSE IF f.shape = "string" THEN Field("string", <<context \o FieldText(f)>>)
  ELSE IF f.shape = "append" THEN Field("append", <<context \o FieldText(f)>>)
  ELSE f

InjectSystem(p, f, context) ==
  IF p = "anthropic" THEN InjectAnthropicSystem(f, context)
  ELSE InjectClaudeSystem(f, context)

\* The shapes the field may have for each of the two providers
Fields(p) ==
  {Field("absent", <<>>), Field("string", <<NoText>>), Field("string", <<SystemText>>)}
  \cup (IF p = "anthropic"
        THEN {Field("blocks", b) : b \in {<<>>, <<SystemText>>, <<SystemText, <<"Answer in French">>>>}}
        ELSE {Field("preset", <<>>), Field("append", <<NoText>>), Field("append", <<SystemText>>)})

\* What comes out when a promise is put into a template literal
ObjectPromise == <<"[object Promise]">>

\* injectMemoryIntoOptions(options, config): client.memory.context.retrieve is
\* an async function called without await, so memoryContext is a promise,
\* which is truthy whatever it resolves to
injectMemoryIntoOptions(f, captureOnly, agent) ==
  IF captureOnly THEN f ELSE InjectClaudeSystem(f, ObjectPromise)

\* The function install() builds to run after the SDK's constructor
PatchedConstructor(f, scoped, captureOnly, agent) ==
  IF scoped THEN injectMemoryIntoOptions(f, captureOnly, agent) ELSE f

\* new SubprocessCLITransport(options) after install(): install() assigns
\* prototype.write and prototype.readMessages only; PatchedConstructor stays a
\* local of install(), and the class the SDK exports runs its own constructor
ConstructTransport(f, scoped, captureOnly, agent) == f

\* ------------------------------------------------------ turn capture pipeline
\* One invocation of saveConversationTurn and what it meets:
\*   cfg:     "none" without a scope, "noclient" for a configuration without a
\*            client, "full" otherwise; memory and model as learning() stored them
\*   version: "utils" (interceptors/utils.ts, used by the OpenAI, Anthropic and
\*            Claude interceptors) or "core" (core.ts, used by the Gemini one)
\*   exists:  the memory service holds no agent of the scope's name ("none"),
\*            one carrying the SDK's tag ("tagged") or one without it ("untagged")
\*   list, create, fetch: how the service answers agents.list, agents.create and
\*            the POST to the capture endpoint
Invocation(cfg, memory, model, version, exists, list, create, fetch) ==
  [cfg |-> cfg, memory |-> memory, model |-> model, version |-> version,
   exists |-> exists, list |-> list, create |-> create, fetch |-> fetch]

OldAgent == "agent-old"
NewAgent == "agent-new"
NoAgent == ""
DefaultModel == "anthropic/claude-sonnet-4-20250514"
NoModel == ""

\* What an invocation did: how its promise settled, the agents created and
\* the capture requests sent (the id of the agent each one names)
Trail(settled, lists, creates, posts) ==
  [settled |-> settled, lists |-> lists, creates |-> creates, posts |-> posts]

\* AgentsClient.retrieve(agent): agents.list({name, tags: ['agentic-learning-sdk']});
\* the first agent, or null for none and for any error.  created: an agent this
\* invocation has created, which carries the tag
AgentsRetrieve(a, created) ==
  IF a.list = "reject" THEN NoAgent
  ELSE IF a.exists = "tagged" THEN OldAgent
  ELSE IF created THEN NewAgent
  ELSE NoAgent

\* AgentsClient.create(options): memory = options.memory || ['human'], where
\* options.memory is config.memory, a list even when empty; model =
\* options.model || the default
AgentsCreate(a) ==
  [name |-> "a1",
   memoryBlocks |-> a.memory,
   model |-> IF a.model = NoModel THEN DefaultModel ELSE a.model]

\* The POST to /v1/agents/{id}/messages/capture: a rejected fetch and a
\* response that is not ok both end in a throw
PostThrows(a) == a.fetch \in {"reject", "non2xx"}

\* A catch block that hands the error on
Rethrow(t) == t

\* catch (error) { /* silently fail */ }
SilentlyFail(t) == [t EXCEPT !.settled = "resolve"]

\* The try block of saveConversationTurn
TryCapture(a) ==
  LET found == AgentsRetrieve(a, FALSE)
      creating == found = NoAgent
      creates == IF creating THEN <<AgentsCreate(a)>> ELSE <<>>
      agentState == IF creating THEN NewAgent ELSE found
      \* MessagesClient.capture looks the agent up once more by name
      named == IF a.version = "utils" THEN AgentsRetrieve(a, creating) ELSE agentState
      lists == IF a.version = "utils" THEN 2 ELSE 1
  IN IF creating /\ a.create = "reject" THEN Trail("reject", 1, creates, <<>>)
     ELSE IF named = NoAgent THEN Trail("resolve", lists, creates, <<>>)
     ELSE Trail(IF PostThrows(a) THEN "reject" ELSE "resolve", lists, creates, <<named>>)

\* saveConversationTurn(provider, model, requestMessages, responseDict)
CapturePipeline(a) ==
  IF a.cfg \in {"none", "noclient"} THEN Trail("resolve", 0, <<>>, <<>>)
  ELSE SilentlyFail(TryCapture(a))

\* ------------------------------------------ capture pipelines in flight
\* Several saveConversationTurn invocations for one agent name that no agent
\* has yet, none awaited by its interceptor's caller before the next starts on
\* a streaming call.  Each await of the try block is a suspension point.
\*   version: as above, for each pipeline
\*   unique:  the memory service refuses a second agent of a name, or creates it
\*   pc:      where each pipeline stands; agentState: what its lookup or its
\*            creation gave it; agents: the ids of the agents of that name, in
\*            the order of creation (the id is the number of the pipeline that
\*            created it); posts: the agent each capture request named
Pipelines == 1..MaxCaptures

RaceStart ==
  [pc |-> [p \in Pipelines |-> "start"],
   agentState |-> [p \in Pipelines |-> 0],
   agents |-> <<>>,
   posts |-> [p \in Pipelines |-> 0]]

Races ==
  {[ProbeOf("race", [version |-> v, unique |-> u]) EXCEPT !.res = RaceStart] :
     v \in [Pipelines -> {"utils", "core"}], u \in BOOLEAN}

\* The state of the memory service only
InitRace ==
  /\ impl = "async_hooks"
  /\ sdk = PublishedSdk
  /\ probe \in Races
  /\ running = 0
  /\ enabled = FALSE
  /\ store = [c \in Chains |-> NoCfg]
  /\ scopes = [c \in Chains |-> <<>>]
  /\ lastExit = NoExit
  /\ interceptorsInstalled = FALSE
  /\ autoInstalls = 0
  /\ insts = <<>>
  /\ wrappers = <<>>
  /\ proto = [m \in Methods |-> Original]
  /\ installedInterceptors = <<>>
  /\ anthropicGlobal = [installed |-> FALSE, interceptor |-> 0]
  /\ raised = FALSE
  /\ last = NoCall
  /\ pending = {}

\* let agentState = await client.agents.retrieve(agent): the first agent of
\* the name, or null
RetrieveStep(p) ==
  /\ probe.kind = "race"
  /\ probe.res.pc[p] = "start"
  /\ LET found == IF probe.res.agents = <<>> THEN 0 ELSE probe.res.agents[1]
     IN probe' = [probe EXCEPT
          !.res.agentState[p] = found,
          !.res.pc[p] = IF found = 0 THEN "create" ELSE "capture"]
  /\ UNCHANGED <<impl, sdk, running, enabled, store, scopes, lastExit,
                 interceptorsInstalled, installVars, callVars>>

\* if (!agentState) agentState = await client.agents.create(...); a rejection
\* is caught by the catch block and the Turn is given up
CreateStep(p) ==
  /\ probe.kind = "race"
  /\ probe.res.pc[p] = "create"
  /\ probe' =
       IF probe.arg.unique /\ probe.res.agents # <<>>
       THEN [probe EXCEPT !.res.pc[p] = "done"]
       ELSE [probe EXCEPT
               !.res.agents = Append(@, p),
               !.res.agentState[p] = p,
               !.res.pc[p] = "capture"]
  /\ UNCHANGED <<impl, sdk, running, enabled, store, scopes, lastExit,
                 interceptorsInstalled, installVars, callVars>>

\* The capture request: core.ts posts to agentState.id; utils.ts calls
\* client.messages.capture(agent, ...), which looks the agent up by name once
\* more and posts to the first one listed
CaptureStep(p) ==
  /\ probe.kind = "race"
  /\ probe.res.pc[p] = "capture"
  /\ probe' = [probe EXCEPT
       !.res.posts[p] = IF probe.arg.version[p] = "utils" THEN probe.res.agents[1]
                        ELSE probe.res.agentState[p],
       !.res.pc[p] = "done"]
  /\ UNCHANGED <<impl, sdk, running, enabled, store, scopes, lastExit,
                 interceptorsInstalled, installVars, callVars>>

NextRace == \E p \in Pipelines : RetrieveStep(p) \/ CreateStep(p) \/ CaptureStep(p)

SpecRace == InitRace /\ [][NextRace]_vars

\* ------------------------------------------- transports inside one scope
\* Several SubprocessCLITransport instances used inside one scope, all patched
\* by the one installation.  The buffer of the outgoing side is
\* config.pendingUserMessage, a field of the scope's configuration.
\*   reply:     the assistant text each transport's read stream delivers
\*   pendingUserMessage: the field of the configuration
\*   written:   how many user messages each transport was written
\*   answered:  the transport's read stream has ended
\*   turns:     the Turns handed over, with the transport whose read ended
Transports == 1..MaxTransports

\* The text of the n-th user message written to transport t
MessageOf(t, n) == <<"user message", t, n>>

TransportsStart(reply) ==
  [reply |-> reply,
   pendingUserMessage |-> NoText,
   written |-> [t \in Transports |-> 0],
   answered |-> [t \in Transports |-> FALSE],
   turns |-> <<>>]

InitTransports ==
  /\ impl = "async_hooks"
  /\ sdk = PublishedSdk
  /\ probe \in {[ProbeOf("transports", "a1") EXCEPT !.res = TransportsStart(reply)] :
                  reply \in [Transports -> {NoText, <<"Mock response">>}]}
  /\ running = 0
  /\ enabled = FALSE
  /\ store = [c \in Chains |-> NoCfg]
  /\ scopes = [c \in Chains |-> <<>>]
  /\ lastExit = NoExit
  /\ interceptorsInstalled = FALSE
  /\ autoInstalls = 0
  /\ insts = <<>>
  /\ wrappers = <<>>
  /\ proto = [m \in Methods |-> Original]
  /\ installedInterceptors = <<>>
  /\ anthropicGlobal = [installed |-> FALSE, interceptor |-> 0]
  /\ raised = FALSE
  /\ last = NoCall
  /\ pending = {}

\* transport.write(data) with a user message: captureOutgoingMessage sets
\* config.pendingUserMessage = message.message.content
TransportWrite(t) ==
  /\ probe.kind = "transports"
  /\ ~probe.res.answered[t]
  /\ probe.res.written[t] < MaxWrites
  /\ probe' = [probe EXCEPT
       !.res.written[t] = @ + 1,
       !.res.pendingUserMessage = MessageOf(t, probe.res.written[t] + 1)]
  /\ UNCHANGED <<impl, sdk, running, enabled, store, scopes, lastExit,
                 interceptorsInstalled, installVars, callVars>>

\* The read stream of transport t ends: the finally block of
\* wrapMessageIterator takes config.pendingUserMessage and the text it
\* accumulated, hands a Turn over when either is there, and clears the field
TransportReadEnds(t) ==
  /\ probe.kind = "transports"
  /\ ~probe.res.answered[t]
  /\ probe.res.written[t] >= 1
  /\ LET userMessage == probe.res.pendingUserMessage
         assistantMessage == probe.res.reply[t]
         dispatch == userMessage # NoText \/ assistantMessage # NoText
     IN probe' = [probe EXCEPT
          !.res.answered[t] = TRUE,
          !.res.turns = IF dispatch
                        THEN Append(@, [transport |-> t,
                                        turn |-> Turn(probe.arg, "claude",
                                           IF userMessage # NoText
                                           THEN buildRequestMessages(userMessage)
                                           ELSE <<>>,
                                           [role |-> "assistant",
                                            content |-> assistantMessage])])
                        ELSE @,
          !.res.pendingUserMessage = IF dispatch THEN NoText ELSE @]
  /\ UNCHANGED <<impl, sdk, running, enabled, store, scopes, lastExit,
                 interceptorsInstalled, installVars, callVars>>

NextTransports == \E t \in Transports : TransportWrite(t) \/ TransportReadEnds(t)

SpecTransports == InitTransports /\ [][NextTransports]_vars

\* ------------------------------------------------ pure functions on their own
Labels == {"human", "persona"}
Values == {NoText, <<"Bob">>, <<"likes", "tea">>}
Descriptions == {NoText, <<"about the user">>}
Blocks ==
  {Block(l, d, v) : l \in Labels, d \in Descriptions, v \in Values} \cup {NullBlock}

SeqsUpTo(S, n) == UNION {[1..k -> S] : k \in 0..n}

\* Chunks of a stream: with a text fragment, without one (a role or usage
\* chunk), and for Gemini one whose text() accessor throws
ChunksOf(m) ==
  {Chunk1, Chunk2, NoResp} \cup (IF ProviderOf(m) = "gemini" THEN {BlockedResponse} ELSE {})

StreamMethods == {"completions.create", "messages.create", "generateContentStream"}

\* Entries of a chat message list: two different system messages, a user
\* message and an assistant message
ListEntries ==
  {[role |-> "system", content |-> SystemText],
   [role |-> "system", content |-> <<"Answer in French">>],
   [role |-> "user", content |-> UserText],
   [role |-> "assistant", content |-> <<"Hello Alice">>]}

\* Requests that carry an ordered list: params.messages of chat completions,
\* and the Gemini request as a list of parts, bare or under {contents}
ListRequests(m) ==
  IF m = "completions.create"
  THEN {Req(msgs, NoText, NoText, "", <<>>, NoText, FALSE) :
          msgs \in SeqsUpTo(ListEntries, MaxMessages) \ {<<>>}}
  ELSE {Req(<<>>, NoText, NoText, form, parts, NoText, FALSE) :
          form \in {"array", "object"},
          parts \in SeqsUpTo({UserText, <<"Hello Alice">>}, MaxMessages) \ {<<>>}}

\* The memory text of agent "a1"
MemoryOfA1 == Retrieve("a1")

\* config.memory is options.memory || [], config.model is options.model
Invocations ==
  {Invocation(c, me, mo, v, ex, li, cr, fe) :
     c \in {"none", "noclient", "full"},
     me \in {<<>>, <<"human", "persona">>},
     mo \in {NoModel, "gpt-4o"},
     v \in {"utils", "core"},
     ex \in {"none", "tagged", "untagged"},
     li \in {"ok", "reject"},
     cr \in {"ok", "reject"},
     fe \in {"ok", "non2xx", "reject"}}

\* params.messages = ..., params.input = ..., params.system = ...: the OpenAI
\* and Anthropic injections assign to the object they were handed and return
\* it; the Gemini one builds what it returns
InPlace(m) == ProviderOf(m) \in {"openai", "anthropic"}

\* The request object the caller passed, once the wrapper has run
\* `params = await this.retrieveAndInjectMemory(config, params)`
CallerObjectAfter(m, kwargs, injected) == IF InPlace(m) THEN injected ELSE kwargs

\* Calls about to be issued with one request object, each under a scope of its
\* own for the same agent
Reuses ==
  UNION {{[ProbeOf("reuse", [req |-> r, agent |-> a, captureOnly |-> co])
             EXCEPT !.m = m, !.res = [obj |-> r, sent |-> <<>>, captured |-> <<>>]] :
            r \in Requests(m), a \in Agents, co \in BOOLEAN}
         : m \in Methods \ {"write", "readMessages"}}

Probes ==
  {Probe("blocks", b, "", <<>>) : b \in SeqsUpTo(Blocks, MaxBlocks)}
  \cup UNION {{Probe("chunks", <<>>, m, ch) : ch \in SeqsUpTo(ChunksOf(m), MaxChunks)}
              : m \in StreamMethods}
  \cup {ProbeOf("capture", a) : a \in Invocations}
  \cup UNION {{[ProbeOf("inject", r) EXCEPT !.m = m] : r \in ListRequests(m)}
              : m \in {"completions.create", "generateContent"}}
  \cup UNION {{ProbeOf("system", [provider |-> p, field |-> f]) : f \in Fields(p)}
              : p \in {"anthropic", "claude"}}
  \cup {ProbeOf("construct", [field |-> f, scoped |-> sc, captureOnly |-> co, agent |-> a]) :
          f \in Fields("claude"), sc \in BOOLEAN, co \in BOOLEAN, a \in Agents}
  \cup Reuses

InitPure ==
  /\ impl = "async_hooks"
  /\ sdk = PublishedSdk
  /\ probe \in Probes
  /\ running = 0
  /\ enabled = FALSE
  /\ store = [c \in Chains |-> NoCfg]
  /\ scopes = [c \in Chains |-> <<>>]
  /\ lastExit = NoExit
  /\ interceptorsInstalled = FALSE
  /\ autoInstalls = 0
  /\ insts = <<>>
  /\ wrappers = <<>>
  /\ proto = [m \in Methods |-> Original]
  /\ installedInterceptors = <<>>
  /\ anthropicGlobal = [installed |-> FALSE, interceptor |-> 0]
  /\ raised = FALSE
  /\ last = NoCall
  /\ pending = {}

\* formatMemoryBlocks(blocks), called a first and a second time
Format ==
  /\ probe.kind = "blocks"
  /\ probe.runs < 2
  /\ probe' = [probe EXCEPT
       !.runs = @ + 1,
       !.outcome = "ok",
       !.out = IF probe.runs = 0 THEN formatMemoryBlocks(probe.blocks) ELSE @,
       !.again = IF probe.runs = 1 THEN formatMemoryBlocks(probe.blocks) ELSE @]
  /\ UNCHANGED <<impl, sdk, running, enabled, store, scopes, lastExit,
                 interceptorsInstalled, installVars, callVars>>

\* saveStreamingTurn: buildResponseFromChunks(chunks), then the content of
\* buildResponseDict(response)
Reconstruct ==
  /\ probe.kind = "chunks"
  /\ probe.runs = 0
  /\ probe' = [probe EXCEPT
       !.runs = 1,
       !.outcome = IF BuildThrows(probe.m, probe.chunks) THEN "throw" ELSE "ok",
       !.out = IF BuildThrows(probe.m, probe.chunks) THEN <<>>
               ELSE buildResponseDict(buildResponseFromChunks(probe.chunks)).content]
  /\ UNCHANGED <<impl, sdk, running, enabled, store, scopes, lastExit,
                 interceptorsInstalled, installVars, callVars>>

\* await saveConversationTurn(...)
Capture ==
  /\ probe.kind = "capture"
  /\ probe.runs = 0
  /\ probe' = [probe EXCEPT
       !.runs = 1,
       !.outcome = CapturePipeline(probe.arg).settled,
       !.res = CapturePipeline(probe.arg)]
  /\ UNCHANGED <<impl, sdk, running, enabled, store, scopes, lastExit,
                 interceptorsInstalled, installVars, callVars>>

\* injectMemoryContext(params, context) with the agent's memory text
Inject ==
  /\ probe.kind = "inject"
  /\ probe.runs = 0
  /\ probe' = [probe EXCEPT
       !.runs = 1,
       !.outcome = "ok",
       !.res = injectMemoryContext(probe.m, probe.arg, MemoryOfA1)]
  /\ UNCHANGED <<impl, sdk, running, enabled, store, scopes, lastExit,
                 interceptorsInstalled, installVars, callVars>>

\* injectMemoryContext(params, context) on a request with a system field
InjectField ==
  /\ probe.kind = "system"
  /\ probe.runs = 0
  /\ probe' = [probe EXCEPT
       !.runs = 1,
       !.outcome = "ok",
       !.res = InjectSystem(probe.arg.provider, probe.arg.field, MemoryOfA1)]
  /\ UNCHANGED <<impl, sdk, running, enabled, store, scopes, lastExit,
                 interceptorsInstalled, installVars, callVars>>

\* new SubprocessCLITransport(options), the interceptor installed
Construct ==
  /\ probe.kind = "construct"
  /\ probe.runs = 0
  /\ probe' = [probe EXCEPT
       !.runs = 1,
       !.outcome = "ok",
       !.res = ConstructTransport(probe.arg.field, probe.arg.scoped,
                                  probe.arg.captureOnly, probe.arg.agent)]
  /\ UNCHANGED <<impl, sdk, running, enabled, store, scopes, lastExit,
                 interceptorsInstalled, installVars, callVars>>

\* One more patched call with the request object the caller holds: the
\* wrapper's extractUserMessages(params), its
\* `params = await this.retrieveAndInjectMemory(config, params)`, what it hands
\* to the original method and the request messages it builds for the Turn
Reissue ==
  /\ probe.kind = "reuse"
  /\ probe.runs < MaxReuse
  /\ LET config == MkConfig(1, 1, probe.arg.agent, probe.arg.captureOnly)
         env == Env(FALSE, FALSE, FALSE, MockResponse, <<>>, "done")
         userMessage == extractUserMessages(probe.m, probe.res.obj)
         params == retrieveAndInjectMemory(probe.m, config, probe.res.obj, env).req
     IN probe' = [probe EXCEPT
          !.runs = @ + 1,
          !.outcome = "ok",
          !.res = [obj |-> CallerObjectAfter(probe.m, probe.res.obj, params),
                   sent |-> Append(probe.res.sent, params),
                   captured |-> Append(probe.res.captured,
                                       buildRequestMessages(userMessage))]]
  /\ UNCHANGED <<impl, sdk, running, enabled, store, scopes, lastExit,
                 interceptorsInstalled, installVars, callVars>>

NextPure ==
  Format \/ Reconstruct \/ Capture \/ Inject \/ InjectField \/ Construct \/ Reissue

SpecPure == InitPure /\ [][NextPure]_vars

\* Installation and teardown around scope activations, for any SDK shape
NextInstall ==
  \E Caller \in Callers :
    \/ \E agent \in Agents, co \in BOOLEAN :
         Depth(Caller) = 0 /\ Learning(Caller, agent, co)
    \/ Exit(Caller)
    \/ \E agent \in Agents, co \in BOOLEAN :
         Depth(Caller) = 0 /\ WithLearning(Caller, agent, co, FALSE)
    \/ \E outcome \in {"resolve", "reject"} : WithSettle(Caller, outcome)
    \/ Await(Caller)
    \/ AutoInstall
    \/ EnableAnthropicInterception
    \/ UninstallAll

SpecInstall == InitAnySdk /\ [][NextInstall]_vars

\* ---------------------------------------------------------- claims on calls
\* A call went through a patched method
Patched == last.valid /\ last.fn # Original

\* A scope was active for the call: the wrapper read a configuration
UnderScope == Patched /\ last.cfg # NoCfg

\* What the same call gives on the SDK's unpatched method
Unpatched == OriginalCall(last.m, last.req, last.env)

NonStreaming == last.m \notin {"write", "readMessages"} /\ ~IsStreaming(last.m, last.req)

\* How the provider's own stream ends for a caller that takes as many chunks
ProviderEnd ==
  IF last.delivered < Len(last.env.chunks) THEN "cancelled" ELSE last.env.streamEnd

\* The call is over for the caller: the response was handed back, or the
\* stream was taken to its end inside the scope
Completed ==
  /\ last.outcome = "ok"
  /\ IF last.value.kind = "stream"
     THEN /\ last.consumed /\ last.streamOutcome = "done" /\ last.value.chunks # <<>>
          /\ GetCurrentConfig(last.chain) = last.cfg
     ELSE last.m # "write"

MemoryText == Retrieve(last.cfg.agentName)

C6_MemoryInjection ==
  (UnderScope /\ ~last.cfg.captureOnly /\ MemoryText # NoText /\ ~last.env.memFails) =>
    \A k \in 1..Len(last.ev.prov) : ContainsText(last.ev.prov[k], MemoryText)

\* C7 (Exactly one Turn): a non-streaming call under a scope that handed the
\* provider's response back has handed exactly one Turn to capture, made of
\* the caller's user text and the provider's response text, whatever
\* autoInstall() calls and scope activations came before.
C7_ExactlyOneTurn ==
  (UnderScope /\ NonStreaming /\ last.outcome = "ok") =>
    last.ev.turns =
      <<Turn(last.cfg.agentName, ProviderOf(last.m),
             <<[role |-> "user", content |-> extractUserMessages(last.m, last.req)]>>,
             [role |-> "assistant", content |-> last.env.resp.text])>>

\* C8 (Real-call failure propagated unchanged): under a scope, an error of the
\* stored original reaches the caller as it is, and the caller sees an error
\* only when the unpatched call gives that same error.
C8_RealCallFailure ==
  UnderScope =>
    /\ last.env.origThrows => (last.outcome = "throw" /\ last.error = Unpatched.error)
    /\ last.outcome = "throw" =>
         (Unpatched.outcome = "throw" /\ last.error = Unpatched.error)
    /\ last.consumed => last.streamOutcome = ProviderEnd

\* C9 (Side-channel failures never propagate): under a scope, when the
\* provider call succeeds the caller gets the provider's response, or the
\* provider's chunks and a normal end of the stream (a memory service that
\* never answers is the subject of C11).
C9_SideChannelFailures ==
  (UnderScope /\ ~last.env.origThrows /\ ~last.env.captureHangs) =>
    /\ last.outcome = "ok"
    /\ last.value.kind = Unpatched.value.kind
    /\ last.value.resp = Unpatched.value.resp
    /\ last.value.chunks = Unpatched.value.chunks
    /\ last.consumed => last.streamOutcome = ProviderEnd

\* The same call under the same scope with nothing to inject
Baseline ==
  Invoke(last.fn, last.m, last.req, [last.cfg EXCEPT !.captureOnly = TRUE], last.env)

\* C10 (Injection failure falls back to the original request): under a scope
\* with captureOnly=false, when memory retrieval fails the stored original is
\* called exactly once with the request as the caller supplied it, the
\* provider receives that request, and the call goes on to capture as it does
\* when there is nothing to inject.
C10_InjectionFailure ==
  (UnderScope /\ ~last.cfg.captureOnly /\ last.env.memFails /\ ~last.consumed) =>
    /\ Cardinality({k \in 1..Len(last.ev.calls) : last.ev.calls[k].w = last.fn}) = 1
    /\ \A k \in 1..Len(last.ev.calls) : last.ev.calls[k].req = last.req
    /\ last.ev.prov = <<last.req>>
    /\ last.ev.retrievals >= 1
    /\ last.outcome = Baseline.outcome
    /\ last.value.kind = Baseline.value.kind
    /\ last.value.resp = Baseline.value.resp
    /\ last.value.chunks = Baseline.value.chunks
    /\ last.ev.turns = Baseline.ev.turns
    /\ (NonStreaming /\ last.outcome = "ok") => Len(last.ev.turns) >= 1

\* C10 witness: retrieval failed for agent a1, the provider answered the
\* caller's own request, and the Turn was handed over.
C10_Witness ==
  /\ UnderScope /\ ~last.cfg.captureOnly /\ last.env.memFails
  /\ last.cfg.agentName = "a1"
  /\ last.m = "messages.create" /\ NonStreaming
  /\ last.outcome = "ok"
  /\ last.ev.prov = <<last.req>>
  /\ Len(last.ev.turns) = 1

\* C11 (Capture dispatched, not awaited): a non-streaming call under a scope
\* comes back to its caller also when the memory service never answers the
\* capture pipeline.
C11_CaptureNotAwaited ==
  (UnderScope /\ NonStreaming /\ last.env.captureHangs) => last.outcome # "hang"

\* A streaming call under a scope handed its stream to the caller
ScopedStream == UnderScope /\ last.outcome = "ok" /\ last.value.kind = "stream"

\* The chunks the wrappers have seen
Seen == SubSeq(last.env.chunks, 1, last.delivered)

\* C12 (Streaming pass-through ordering): for a streaming call under a scope
\* the caller has received exactly the chunks the provider's stream has
\* yielded so far, each once, unmodified and in order, all of them when the
\* stream is exhausted, and no Turn is handed to capture while chunks are
\* still being delivered.
C12_StreamPassThrough ==
  ScopedStream =>
    /\ last.got = Seen
    /\ ~last.consumed => last.ev.turns = <<>>
    /\ (last.consumed /\ last.streamOutcome = "done") => last.got = last.env.chunks

\* C12 witness: both chunks of a stream came through two stacked wrappers and
\* the stream is still open.
C12_Witness ==
  /\ ScopedStream
  /\ Len(last.value.layers) = 2
  /\ last.got = <<Chunk1, Chunk2>>
  /\ ~last.consumed

\* C13 (Stream termination always triggers capture): when a stream obtained
\* under a scope has ended, by exhaustion, by a provider error or by the
\* caller leaving early, exactly one Turn has been handed to capture, for the
\* scope's agent, and its response is the joined text of the chunks seen.
C13_StreamTermination ==
  (ScopedStream /\ last.consumed) =>
    /\ Len(last.ev.turns) = 1
    /\ last.ev.turns[1].agent = last.cfg.agentName
    /\ last.ev.turns[1].response =
         [role |-> "assistant",
          content |-> JoinTexts([k \in 1..Len(Seen) |-> Seen[k].text])]

\* C14 (install() is re-entrant-safe): whatever installations were made, the
\* function each patched method calls as its original is the SDK's own method,
\* and a call under a scope runs through one wrapper, reaches the provider
\* once, retrieves memory at most once and, when it hands back a response,
\* hands one Turn to capture.
C14_InstallReentrant ==
  /\ \A m \in Methods : proto[m] # Original => StoredOriginal(proto[m]) = Original
  /\ UnderScope =>
       /\ Len(last.ev.calls) = 1
       /\ Len(last.ev.prov) = 1
       /\ last.ev.retrievals <= 1
       /\ (NonStreaming /\ last.outcome = "ok") => Len(last.ev.turns) = 1

\* C15 (Install/uninstall round-trip): when uninstallAll() runs after a single
\* installation, every SDK method is the SDK's own function again, whichever
\* way install() found the SDK class.
C15_RoundTrip ==
  [][(autoInstalls = 1 /\ installedInterceptors # <<>> /\ installedInterceptors' = <<>>)
       => \A m \in Methods : proto'[m] = Original]_vars

\* C16 (Lazy auto-installation exactly once): every activation by learning()
\* or withLearning(), the first and each later one, leaves the number of
\* autoInstall() invocations at one, and none has happened before the first.
C16_InstallOnce ==
  [][/\ (\A c \in Chains : scopes[c] = <<>>) /\ ~interceptorsInstalled => autoInstalls = 0
     /\ (\E c \in Chains : Len(scopes'[c]) > Len(scopes[c])) => autoInstalls' = 1]_vars

C16_Witness ==
  /\ autoInstalls = 1
  /\ Len(scopes[1]) = 2
  /\ scopes[1][1].kind = "learning" /\ scopes[1][2].kind = "with"
  /\ Len(scopes[2]) = 1

\* C22 (Registry teardown): uninstallAll() after one or more autoInstall()
\* calls empties the list of installed interceptors and leaves every SDK method
\* the SDK's own function (with SDK modules of the published shape).
C22_Teardown ==
  [][(sdk.geminiExported /\ Len(installedInterceptors') < Len(installedInterceptors))
       => /\ installedInterceptors' = <<>>
          /\ \A m \in Methods : proto'[m] = Original]_vars

\* The tracked interceptor instances of provider p
TrackedOf(list, all, p) == {k \in 1..Len(list) : all[list[k]].provider = p}

\* After an installation every provider but the faulty one is tracked, and
\* patched where install() patches at once (Anthropic patches on first use)
OthersInstalled(list, all, pr, faulty) ==
  \A q \in Providers \ {faulty} :
    /\ TrackedOf(list, all, q) # {}
    /\ q # "anthropic" => \A m \in Methods : ProviderOf(m) = q => pr[m] # Original

LeftAlone(pr, p) == \A m \in Methods : ProviderOf(m) = p => pr[m] = Original

\* C23 (Unavailable provider): with a provider's SDK module missing,
\* isAvailable() returns false without throwing, so no step surfaces an error,
\* tracks an interceptor of that provider or patches its SDK, and every
\* autoInstall() still installs the other providers.
C23_UnavailableProvider ==
  [][sdk.fault = "missing" =>
       /\ ~raised'
       /\ TrackedOf(installedInterceptors', insts', sdk.provider) = {}
       /\ LeftAlone(proto', sdk.provider)
       /\ autoInstalls' > autoInstalls =>
            OthersInstalled(installedInterceptors', insts', proto', sdk.provider)]_vars

C23_Witness ==
  /\ sdk.fault = "missing" /\ sdk.provider = "openai"
  /\ autoInstalls = 1
  /\ Len(installedInterceptors) = 3
  /\ proto["generateContent"] # Original
  /\ proto["completions.create"] = Original

Captured == probe.kind = "capture" /\ probe.runs = 1 /\ probe.arg.cfg = "full"

\* The memory service answers every request of the invocation
ServiceUp ==
  probe.arg.list = "ok" /\ probe.arg.create = "ok" /\ probe.arg.fetch = "ok"

\* C25 (Resolve or create the agent): when an agent of the scope's name exists
\* none is created and the Turn is captured against it; when none exists
\* exactly one is created, with the scope's memory-block selection and model,
\* and the Turn is captured against that one.
C25_ResolveOrCreate ==
  Captured =>
    /\ probe.arg.exists # "none" => probe.res.creates = <<>>
    /\ (ServiceUp /\ probe.arg.exists # "none") => probe.res.posts = <<OldAgent>>
    /\ (ServiceUp /\ probe.arg.exists = "none") =>
         /\ Len(probe.res.creates) = 1
         /\ probe.res.creates[1].memoryBlocks = probe.arg.memory
         /\ probe.res.creates[1].model =
              (IF probe.arg.model = NoModel THEN DefaultModel ELSE probe.arg.model)
         /\ probe.res.posts = <<NewAgent>>

\* C26 (Pipeline never raises, never retries): whatever the lookup, the
\* creation and the capture request come to, the promise of
\* saveConversationTurn resolves and at most one capture request was sent.
C26_NeverRaises ==
  (probe.kind = "capture" /\ probe.runs = 1) =>
    /\ probe.outcome = "resolve"
    /\ Len(probe.res.posts) <= 1
    /\ Len(probe.res.creates) <= 1

C26_Witness ==
  /\ Captured
  /\ probe.arg.fetch = "non2xx"
  /\ probe.arg.exists = "none"
  /\ probe.res.posts = <<NewAgent>>
  /\ probe.outcome = "resolve"

\* C35 (Injection leaves the caller's request unchanged): after each patched
\* call the request object the caller passed holds what it held before the
\* first call, and every call with that object sends the provider the same
\* request, with as many copies of the memory text as the first.
C35_RequestUnchanged ==
  (probe.kind = "reuse" /\ probe.runs >= 1) =>
    /\ probe.res.obj = probe.arg.req
    /\ \A k \in 1..Len(probe.res.sent) : probe.res.sent[k] = probe.res.sent[1]

\* C37 (Reported installed implies patched): every interceptor in the
\* installed list has each of its provider's request-issuing methods replaced
\* by a wrapper and holds an original for it.
C37_InstalledImpliesPatched ==
  \A k \in 1..Len(installedInterceptors) :
    LET i == installedInterceptors[k]
    IN \A m \in Methods :
         ProviderOf(m) = insts[i].provider =>
           /\ proto[m] # Original
           /\ insts[i].originalMethods[m] # Absent

\* C38 (Transport pairing under concurrency): of the transports used inside
\* one scope, each one whose read stream has ended has exactly one Turn, and
\* that Turn pairs the user message last written to that transport with the
\* assistant text read from it.
C38_TransportPairing ==
  probe.kind = "transports" =>
    \A t \in Transports :
      probe.res.answered[t] =>
        \E k \in 1..Len(probe.res.turns) :
          /\ probe.res.turns[k].transport = t
          /\ probe.res.turns[k].turn.request =
               buildRequestMessages(MessageOf(t, probe.res.written[t]))
          /\ probe.res.turns[k].turn.response.content = probe.res.reply[t]

\* uninstallAll() has run and nothing was installed since
TornDown == installedInterceptors = <<>> /\ insts # <<>>

\* A non-streaming call of each eagerly patched provider, made by chain c
\* now, is injected and captured
Intercepts(c) ==
  \A m \in {"completions.create", "responses.create", "generateContent"} :
    LET cfg == GetCurrentConfig(c)
        req == CHOOSE q \in Requests(m) : extractUserMessages(m, q) # NoText
        r == Invoke(proto[m], m, req, cfg, Env(FALSE, FALSE, FALSE, MockResponse, <<>>, "done"))
    IN /\ cfg # NoCfg
       /\ r.ev.turns # <<>>
       /\ ~cfg.captureOnly => r.ev.retrievals >= 1

\* C39 (Interception resumes after teardown): with the SDKs as published, a
\* scope activation that follows uninstallAll() leaves the provider methods
\* patched, so that calls inside the scope are injected and captured.
C39_ResumesAfterTeardown ==
  [][\A c \in Chains :
       (sdk.fault = "" /\ TornDown /\ Len(scopes'[c]) > Len(scopes[c]))
         => Intercepts(c)']_vars

\* C40 (No Turn for a failed call): when the real provider call of a call
\* made under a scope throws, the caller gets the error, no stream, and no
\* Turn is handed to the capture pipeline, the only place an agent is created.
C40_NoTurnForFailedCall ==
  (UnderScope /\ last.env.origThrows) =>
    /\ last.outcome = "throw"
    /\ last.value = NoValue
    /\ last.ev.turns = <<>>

C40_Witness ==
  /\ UnderScope /\ last.env.origThrows
  /\ last.m = "completions.create"
  /\ ~last.cfg.captureOnly
  /\ last.ev.retrievals = 1
  /\ Len(last.ev.prov) = 1
  /\ ContainsText(last.ev.prov[1], MemoryText)
  /\ last.outcome = "throw"
  /\ last.ev.turns = <<>>

\* Every pipeline has settled
AllSettled == probe.kind = "race" /\ \A p \in Pipelines : probe.res.pc[p] = "done"

\* C34 (Get-or-create under interleaving): when the captures running
\* concurrently for a name no agent has yet have all settled, at most one
\* agent of the name was created and every Turn was captured against it.
C34_GetOrCreateOnce ==
  AllSettled =>
    /\ Len(probe.res.agents) <= 1
    /\ \A p \in Pipelines :
         probe.res.agents # <<>> /\ probe.res.posts[p] = probe.res.agents[1]

\* How often the text occurs in a sequence of tokens
Occurrences(flat, text) ==
  Cardinality({k \in 1..Len(flat) :
     k + Len(text) - 1 <= Len(flat) /\ SubSeq(flat, k, k + Len(text) - 1) = text})

EndsWith(t, tail) ==
  Len(t) >= Len(tail) /\ SubSeq(t, Len(t) - Len(tail) + 1, Len(t)) = tail

\* The entries of a request's list, as role and text: the messages, or the
\* Gemini parts
EntriesOf(req) ==
  IF req.messages # <<>> THEN req.messages
  ELSE [k \in 1..Len(req.contents) |-> [role |-> "user", content |-> req.contents[k]]]

Injected == probe.kind = "inject" /\ probe.runs = 1

\* C27 (Message-list injection): after the injection the list begins with the
\* memory text, as a new leading entry or merged into the leading entry, the
\* memory text occurs once in the request, and every original entry is still
\* there with its content, in its order.
C27_ListInjection ==
  Injected =>
    LET before == EntriesOf(probe.arg)
        after == EntriesOf(probe.res)
        d == Len(after) - Len(before)
    IN /\ d \in {0, 1}
       /\ SubSeq(after[1].content, 1, Len(MemoryOfA1)) = MemoryOfA1
       /\ Occurrences(Flatten(probe.res), MemoryOfA1) = 1
       /\ \A k \in 1..Len(before) :
            /\ d = 1 => after[k + d].content = before[k].content
            /\ d = 0 => EndsWith(after[k].content, before[k].content)
            /\ (d = 0 /\ k > 1) => after[k].content = before[k].content

\* C36 (Captured request content is the caller's own text): the request
\* messages built for the Turn of each call carry the user text of the request
\* the caller first supplied, and the memory text is not in them.
C36_CapturedIsCallersText ==
  probe.kind = "reuse" =>
    \A k \in 1..Len(probe.res.captured) :
      /\ probe.res.captured[k] =
           buildRequestMessages(extractUserMessages(probe.m, probe.arg.req))
      /\ Retrieve(probe.arg.agent) # NoText =>
           Occurrences(probe.res.captured[k][1].content, Retrieve(probe.arg.agent)) = 0

\* C28 (System-field injection): whatever shape the system field has, after
\* the injection the field is there and its text is the memory text followed
\* by what the field held before.
C28_FieldInjection ==
  (probe.kind = "system" /\ probe.runs = 1) =>
    /\ probe.res.shape # "absent"
    /\ FieldText(probe.res) = MemoryOfA1 \o FieldText(probe.arg.field)

\* C30 (Injection at construction): a transport constructed after install()
\* under a scope with captureOnly=false, for an agent with memory, has the
\* formatted memory text in its system prompt, once.
C30_InjectionAtConstruction ==
  (probe.kind = "construct" /\ probe.runs = 1 /\ probe.arg.scoped
     /\ ~probe.arg.captureOnly /\ Retrieve(probe.arg.agent) # NoText) =>
    Occurrences(FieldText(probe.res), Retrieve(probe.arg.agent)) = 1

\* A stream issued under a scope comes to its end in this step, with what its
\* wrapper needs to hand a Turn over: a chunk seen, readable texts, a user text
Terminates ==
  /\ StreamOpen /\ UnderScope
  /\ last'.valid /\ last'.consumed
  /\ last.delivered >= 1
  /\ ~BuildThrows(last.m, Seen)
  /\ extractUserMessages(last.m, last.req) # NoText

\* C33 (Turn goes to the issuing scope): the Turn handed over when a stream
\* ends names the agent of the scope the streaming call was issued in,
\* whatever is current when the stream ends.
C33_TurnToIssuingScope ==
  [][Terminates =>
       /\ Len(last'.ev.turns) = 1
       /\ last'.ev.turns[1].agent = last.cfg.agentName]_vars

\* The read stream of the transport comes to its end in this step, under the
\* scope its read was issued in
ReadEnds ==
  /\ StreamOpen /\ last.m = "readMessages" /\ UnderScope
  /\ GetCurrentConfig(last.chain) = last.cfg
  /\ last'.valid /\ last'.consumed

\* C29 (Transport turn assembly): under a scope a write buffers the user
\* message it carries; when the read stream ends, the scope still current and
\* a user message buffered, exactly one Turn is dispatched, made of that
\* message and the assistant texts read, in order, and the buffer is empty
\* afterwards.
C29_TurnAssembly ==
  [][/\ (last'.valid /\ ~last.valid /\ last'.m = "write" /\ last'.cfg # NoCfg
          /\ last'.fn # Original /\ last'.req.data # NoText)
        => PendingOf(pending', last'.cfg) = last'.req.data
     /\ (ReadEnds /\ PendingOf(pending, last.cfg) # NoText)
        => /\ last'.ev.turns =
                <<Turn(last.cfg.agentName, "claude",
                       buildRequestMessages(PendingOf(pending, last.cfg)),
                       [role |-> "assistant",
                        content |-> JoinTexts([k \in 1..last.delivered |->
                                                 last.value.chunks[k].text])])>>
           /\ PendingOf(pending', last.cfg) = NoText]_vars

\* C21 (One-line form): when the promise of learning(options, fn) has settled,
\* fn has been invoked and the scope is no longer current for the caller, who
\* sees what was current before.
C21_OneLineForm ==
  (lastExit.valid /\ lastExit.kind = "dropped")
    => (lastExit.fnOutcome # "" /\ lastExit.restored)

\* A block the formatter gives a section to
Valued(block) == ~block.isNull /\ block.value # NoText
Formatted == probe.kind = "blocks" /\ probe.runs >= 1

\* C18 (Formatter null): the formatter returns null exactly when the list is
\* empty or no block of it has a non-empty value.
C18_NullIffNothingToShow ==
  Formatted =>
    (probe.out = NoText <=>
       (probe.blocks = <<>> \/ \A k \in 1..Len(probe.blocks) : ~Valued(probe.blocks[k])))

C18_Witness ==
  /\ Formatted
  /\ Len(probe.blocks) = 2
  /\ ~Valued(probe.blocks[1]) /\ Valued(probe.blocks[2])
  /\ probe.out # NoText

IsOpenTag(line) == line \in {"<" \o l \o ">" : l \in Labels}
IsCloseTag(line) == line \in {"</" \o l \o ">" : l \in Labels}
IsValueWord(line) == line \in UNION {{v[k] : k \in 1..Len(v)} : v \in Values}
RECURSIVE ValueWords(_)
ValueWords(blocks) ==
  IF blocks = <<>> THEN <<>>
  ELSE (IF Head(blocks).isNull THEN <<>> ELSE Head(blocks).value) \o ValueWords(Tail(blocks))

RECURSIVE Fragments(_)
\* The chunks' text fragments in arrival order, nothing between them
Fragments(chunks) ==
  IF chunks = <<>> THEN <<>>
  ELSE Fragments(SubSeq(chunks, 1, Len(chunks) - 1)) \o chunks[Len(chunks)].text

\* C20 (Streaming reconstruction): for every provider and every chunk sequence
\* the reconstructed assistant content is the chunks' text fragments in arrival
\* order with no separator, a chunk without text adding nothing.
C20_Reconstruction ==
  (probe.kind = "chunks" /\ probe.runs = 1) =>
    /\ probe.outcome = "ok"
    /\ probe.out = Fragments(probe.chunks)

\* C17 (Capture only under a scope): every Turn handed to capture belongs to a
\* call that read a configuration and names an agent, and when a stream ends
\* while no configuration is current saveConversationTurn hands nothing over.
C17_CaptureOnlyUnderScope ==
  last.valid =>
    /\ last.ev.turns # <<>> => last.cfg # NoCfg
    /\ \A k \in 1..Len(last.ev.turns) : last.ev.turns[k].agent # ""
    /\ (last.consumed /\ GetCurrentConfig(last.chain) = NoCfg) => last.ev.turns = <<>>

\* C17 witness: a stream obtained under a scope was taken to its end after the
\* scope was left, and its wrapper called saveConversationTurn to no effect.
C17_Witness ==
  /\ ScopedStream
  /\ last.consumed
  /\ last.delivered = 2
  /\ last.value.layers[1].user # NoText
  /\ GetCurrentConfig(last.chain) = NoCfg
  /\ last.ev.turns = <<>>

\* --------------------------------------------------------- claims on scopes
\* The scope a chain's code is written inside: its innermost open activation
InScope(c) == Depth(c) > 0 /\ Running(c)

\* C31 (Configurations are immutable): no configuration object carries
\* anything but the fields learning() or withLearning() gave it; none has a
\* pendingUserMessage put on it.
C31_ConfigImmutable == pending = {}

\* C32 (Exit never deactivates another scope): when a chain leaves its
\* outermost learning() scope while another chain is inside a scope and reads
\* its own configuration there, the other chain still reads its own
\* configuration afterwards, and its provider calls are not passed through.
C32_ExitLeavesOthers ==
  [][\A c, d \in Chains :
       (/\ c # d
        /\ Depth(c) = 1 /\ Top(c).kind = "learning" /\ scopes'[c] = <<>>
        /\ InScope(d) /\ GetCurrentConfig(d) = Top(d).cfg)
       => /\ GetStore(enabled', store', d) = Top(d).cfg
          /\ ~PassThrough(GetStore(enabled', store', d))]_vars

\* C2 (Isolation): at every suspension point inside the body of a chain's
\* scope, getCurrentConfig() is that chain's own configuration.
C2_Isolation ==
  \A c \in Chains : InScope(c) => GetCurrentConfig(c) = Top(c).cfg

\* C3 (Nesting restores): right after exit() of a learning() scope,
\* getCurrentConfig() is the configuration that was current just before the
\* scope was entered, and it is the enclosing scope's configuration whenever
\* the chain is still inside one.
C3_NestingRestores ==
  (lastExit.valid /\ lastExit.kind = "learning")
    => /\ lastExit.restored
       /\ InScope(lastExit.chain)
            => GetCurrentConfig(lastExit.chain) = Top(lastExit.chain).cfg

\* C4 (withLearning restores on every exit path): once withLearning settles,
\* by fn resolving, throwing or rejecting, the caller's getCurrentConfig() is
\* what it was before the call, and fn's outcome reaches the caller unchanged.
C4_WithLearningRestores ==
  (lastExit.valid /\ lastExit.kind = "with")
    => /\ lastExit.restored
       /\ lastExit.callerOutcome = lastExit.fnOutcome

====
